---------------------------- MODULE Spec2Model ----------------------------
(***************************************************************************)
(* Model of src/src/annepro2.rs: the AnnePro2 firmware flasher.            *)
(*                                                                         *)
(* flash_firmware is a single sequential flow.  Its state is the program   *)
(* counter pc, the job (target, base, image, boot), the HID device list,   *)
(* the reports written to the device so far (sent), the reads of the       *)
(* firmware image (fileReads) and the locals of flash_file.                *)
(***************************************************************************)
EXTENDS Integers, Sequences, FiniteSets, TLC

(***************************************************************************)
(* Bounds of the model.                                                    *)
(***************************************************************************)
MaxImageLen == 100  \* image lengths 0..MaxImageLen (three chunks of 48)
ShortReadLen == 20  \* bytes per read of a source that does not fill reads

(***************************************************************************)
(* Program constants.                                                      *)
(***************************************************************************)
ANNEPRO2_VID == 1241   \* 0x04d9
PID_C15 == 32776       \* 0x8008
PID_C18 == 32777       \* 0x8009

\* enum AP2Target
UsbHost == 1
BleHost == 2
McuMain == 3
McuLed == 4
McuBle == 5
AP2Target == {UsbHost, BleHost, McuMain, McuLed, McuBle}

\* enum L2Command (the members the flasher uses)
FW == 2

\* enum KeyCommand (the members the flasher uses)
IapWirteMemory == 49
IapWriteApFlag == 50
IapEraseMemory == 67

ReportLen == 64        \* header + payload + padding, without the report id
HeaderLen == 8
BleChunkSize == 32
DefaultChunkSize == 48
ApFlagValue == 2       \* the flag flash_firmware writes
CountdownFrom == 10    \* seconds waited before the second discovery

(***************************************************************************)
(* Bytes and 32-bit addresses.  A u32 is kept as two 16-bit halves so that *)
(* the full 32-bit range, wrap-around included, can be evaluated.          *)
(***************************************************************************)
Half == 256 * 256

U32(h, l) == [hi |-> h, lo |-> l]

\* a + n (n < 2^16) leaves the 32-bit range
AddOverflows(a, n) == a.hi = Half - 1 /\ a.lo + n >= Half

\* a + n modulo 2^32 (n < 2^16)
WrappingAdd(a, n) ==
    LET l == a.lo + n
    IN  U32((a.hi + (l \div Half)) % Half, l % Half)

\* a - b leaves the 32-bit range (a < b)
SubOverflows(a, b) == a.hi < b.hi \/ (a.hi = b.hi /\ a.lo < b.lo)

\* unsafe { transmute(addr.to_le()) }: the four bytes, least significant first
AddrSlice(a) ==
    << a.lo % 256, a.lo \div 256, a.hi % 256, a.hi \div 256 >>

Zeros(n) == [k \in 1..n |-> 0]

(***************************************************************************)
(* Command payloads and the report layout.                                 *)
(***************************************************************************)
\* write_ap_flag: the payload handed to write_to_target
ApFlagPayload(flag) == << FW, IapWriteApFlag, flag >>

\* write_chunk: the payload handed to write_to_target
ChunkPayload(addr, chunk) == << FW, IapWirteMemory >> \o AddrSlice(addr) \o chunk

\* erase_device: the payload handed to write_to_target
ErasePayload(addr) == << FW, IapEraseMemory >> \o AddrSlice(addr)

\* boot_device: the literal report, written unpadded
BootReport == << 0, 123, 16, 49, 16, 3, 0, 0, 125, 2, 1, 2 >>

RoutingByteSwapped(t) == (((UsbHost % 16) * 16) % 256) + t

\* (((target as u8) & 0xF) << 4) | AP2Target::UsbHost as u8
\* the shifted nibble has its low four bits clear, so the OR adds
RoutingByte(t) == (((t % 16) * 16) % 256) + UsbHost

\* payload.len() as u8
LenByte(payload) == Len(payload) % 256

\* write_to_target: the buffer before padding
Framed(t, payload) ==
    << 123, 16, RoutingByte(t), 16, LenByte(payload), 0, 0, 125 >> \o payload

\* if buffer.len() > 64 { panic!("Wut?") }
FrameTooLong(t, payload) == Len(Framed(t, payload)) > ReportLen

\* while buffer.len() < 64 { buffer.push(0) }
Padded(buffer) ==
    IF Len(buffer) < ReportLen
    THEN buffer \o Zeros(ReportLen - Len(buffer))
    ELSE buffer

\* write_to_target: the bytes given to handle.write (report id first)
Report(t, payload) == << 0 >> \o Padded(Framed(t, payload))

(***************************************************************************)
(* flash_file: the pure parts of one loop iteration.                       *)
(***************************************************************************)
ChunkSizeFillsReport(t) == ReportLen - HeaderLen

\* chunk_size
ChunkSize(t) == IF t = McuBle THEN BleChunkSize ELSE DefaultChunkSize

Min(a, b) == IF a < b THEN a ELSE b

\* The firmware image: image_len bytes, each non-zero so that padding shows.
ImageByte(k) == (k % 255) + 1

ImageSlice(from, n) == [k \in 1..n |-> ImageByte(from + k)]

\* file.read(&mut buffer): the number of bytes one read returns.  A source
\* that fills its reads returns all that was asked for until the image ends;
\* another (a pipe, a socket) returns at most ShortReadLen bytes per call.
ReadSize(full, want, remaining) ==
    Min(IF full THEN want ELSE Min(want, ShortReadLen), remaining)

\* let mut buffer = vec![0u8; chunk_size]; file.read(&mut buffer)
ReadBuffer(chunk_size, from, size) ==
    ImageSlice(from, size) \o Zeros(chunk_size - size)

ShouldWriteAlways(size) == TRUE

\* if size > 0
ShouldWrite(size) == size > 0

ChunkArgBytesRead(buffer, size) == SubSeq(buffer, 1, size)

\* write_chunk(handle, target, current_addr, &buffer): the slice passed
ChunkArg(buffer, size) == buffer

AdvanceAddrByChunk(addr, size, chunk_size) == WrappingAdd(addr, chunk_size)

\* current_addr += size as u32
AdvanceAddr(addr, size, chunk_size) == WrappingAdd(addr, size)

LoopBreaksOnEmpty(size, chunk_size) == size = 0

\* if size < chunk_size { break }
LoopBreaks(size, chunk_size) == size < chunk_size

ChunkErrorLeavesLoop(ok) == ~ok

AdvancesAfterSuccess(ok) == ok

\* current_addr += size as u32 stands after the match on write_chunk's
\* result, so it runs for Ok and for Err alike
AdvancesAfter(ok) == TRUE

\* the result of write_chunk is only logged: an error never leaves the loop
ChunkErrorAborts(ok) == FALSE

(***************************************************************************)
(* fetch_devices.                                                          *)
(***************************************************************************)
IsAnne(dev) == dev.vendor_id = ANNEPRO2_VID

AnneDevices(list) == SelectSeq(list, IsAnne)

IsFlashDevice(dev) ==
    \/ (dev.product_id = PID_C15 /\ dev.interface_number = 1)
    \/ dev.product_id = PID_C18

\* anne_devices.iter().find(..): the first match, as a list of at most one
FlashDevice(list) ==
    LET found == SelectSeq(AnneDevices(list), IsFlashDevice)
    IN  IF found = << >> THEN << >> ELSE << Head(found) >>

NeedsPromptWithoutFlashDevice(list) == FlashDevice(list) = << >>

\* the prompt and the countdown are entered
NeedsPrompt(list) == AnneDevices(list) # << >> /\ FlashDevice(list) = << >>

(***************************************************************************)
(* The inputs of a run.                                                    *)
(***************************************************************************)
Foreign == [vendor_id |-> 1133, product_id |-> 49948, interface_number |-> 0,
            path |-> "hid0"]
C15Itf0 == [vendor_id |-> ANNEPRO2_VID, product_id |-> PID_C15,
            interface_number |-> 0, path |-> "hid1"]
C15Itf1 == [vendor_id |-> ANNEPRO2_VID, product_id |-> PID_C15,
            interface_number |-> 1, path |-> "hid2"]
C18Itf0 == [vendor_id |-> ANNEPRO2_VID, product_id |-> PID_C18,
            interface_number |-> 0, path |-> "hid3"]

DeviceLists ==
    { << >>,
      << Foreign >>,
      << Foreign, C15Itf0 >>,
      << C15Itf0, C15Itf1 >>,
      << C18Itf0, C15Itf1 >> }

\* base addresses whose images stay inside the 32-bit range; the images
\* from 0x0001ffdc cross a 64 KiB boundary, so all four address bytes count
Bases == { U32(1, 65500) }

\* base addresses so high that base + image length can pass 2^32 - 1
TopBases == { U32(65535, 65500) }

(***************************************************************************)
(* State.                                                                  *)
(***************************************************************************)
VARIABLES
    target,          \* flash_firmware's target
    base,            \* flash_firmware's base
    image_len,       \* length of the image behind `file`
    fullReads,       \* whether `file` fills every read until the image ends
    boot,            \* flash_firmware's boot
    overflowChecks,  \* whether the build panics on integer overflow:
                     \* "on" or "off", "undecided" until an overflow shows it
    devices,         \* the HID devices api.device_list() shows
    pc,              \* position in flash_firmware
    result,          \* what flash_firmware ended with
    i,               \* the countdown's i
    ticks,           \* one-second sleeps done
    fetches,         \* calls of fetch_devices
    flash_device,    \* the flash_device of the second fetch_devices
    sent,            \* reports given to handle.write, with their outcome
    replies,         \* 64-byte reads done by write_to_target
    lastReplyOk,     \* outcome of the latest of these reads
    unpluggedAt,     \* reports written when the device was disconnected,
                     \* -1 while it is connected
    fileReads,       \* reads of the image: position before, bytes returned
    filePos,         \* read position of `file`
    current_addr     \* flash_file's current_addr

job == << target, base, image_len, fullReads, boot >>
discovery == << devices, i, ticks, fetches, flash_device >>
transport == << sent, replies, lastReplyOk >>
transfer == << fileReads, filePos, current_addr >>
vars == << job, overflowChecks, unpluggedAt, discovery, transport, transfer, pc, result >>

InitWith(bases) ==
    /\ target \in AP2Target
    /\ base \in bases
    /\ image_len \in 0..MaxImageLen
    /\ fullReads \in BOOLEAN
    /\ boot \in BOOLEAN
    /\ overflowChecks = "undecided"
    /\ devices \in DeviceLists
    /\ pc = "new_api"
    /\ result = "running"
    /\ i = 0
    /\ ticks = 0
    /\ fetches = 0
    /\ flash_device = << >>
    /\ sent = << >>
    /\ replies = 0
    /\ lastReplyOk = TRUE
    /\ unpluggedAt = -1
    /\ fileReads = << >>
    /\ filePos = 0
    /\ current_addr = U32(0, 0)

Init == InitWith(Bases)

\* the same runs from base addresses at the top of the 32-bit range
InitTop == InitWith(TopBases)

\* return Ok(()) / return Err(kind) / panic!(msg)
Ends(how, what) == pc' = how /\ result' = what

Goes(next) == pc' = next /\ result' = result

(***************************************************************************)
(* Discovery: flash_firmware lines 60-84.                                  *)
(***************************************************************************)
\* let api = HidApi::new().map_err(|_| AP2FlashError::USBError)?
HidApiNew ==
    /\ pc = "new_api"
    /\ \E ok \in BOOLEAN :
          IF ok THEN Goes("fetch_devices") ELSE Ends("failed", "USBError")
    /\ UNCHANGED << job, overflowChecks, unpluggedAt, discovery, transport, transfer >>

\* the first fetch_devices and the test that starts the countdown
FetchDevices ==
    /\ pc = "fetch_devices"
    /\ fetches' = fetches + 1
    /\ IF NeedsPrompt(devices)
       THEN i' = CountdownFrom /\ Goes("countdown")
       ELSE i' = i /\ Goes("fetch_again")
    /\ UNCHANGED << job, overflowChecks, unpluggedAt, devices, ticks, flash_device, transport, transfer >>

\* one turn of: while i > 0 { sleep(1 s); i -= 1 }
Countdown ==
    /\ pc = "countdown"
    /\ i > 0
    /\ ticks' = ticks + 1
    /\ i' = i - 1
    /\ Goes(IF i' > 0 THEN "countdown" ELSE "fetch_again")
    /\ UNCHANGED << job, overflowChecks, unpluggedAt, devices, fetches, flash_device, transport, transfer >>

\* the second fetch_devices and flash_device.expect("No device found.")
\* The operator may have re-plugged the keyboard during the countdown.
FetchDevicesAgain ==
    /\ pc = "fetch_again"
    /\ devices' \in (IF ticks > 0 THEN DeviceLists ELSE {devices})
    /\ fetches' = fetches + 1
    /\ flash_device' = FlashDevice(devices')
    /\ IF flash_device' = << >>
       THEN Ends("panicked", "No device found.")
       ELSE Goes("open_path")
    /\ UNCHANGED << job, overflowChecks, unpluggedAt, i, ticks, transport, transfer >>

\* open_path, set_blocking_mode and get_product_string, each with expect
OpenDevice ==
    /\ pc = "open_path"
    /\ \E outcome \in {"ok", "unable to open device", "non-blocking", "string"} :
          IF outcome = "ok"
          THEN Goes("erase_device")
          ELSE Ends("panicked", outcome)
    /\ UNCHANGED << job, overflowChecks, unpluggedAt, discovery, transport, transfer >>

(***************************************************************************)
(* The transport: write_to_target.                                         *)
(***************************************************************************)
\* what handle.write and handle.read can return: Ok or Err while the device
\* is connected, only Err once it is disconnected
HandleOutcomes == IF unpluggedAt < 0 THEN BOOLEAN ELSE {FALSE}

WriteToTargetReadsAfterOk(t, payload, wok, rok) ==
    /\ sent' = Append(sent, [report |-> Report(t, payload), ok |-> wok])
    /\ replies' = IF wok THEN replies + 1 ELSE replies
    /\ lastReplyOk' = (wok /\ rok)

\* handle.write(&buffer) with outcome wok, then handle.read(&mut buf) with
\* outcome rok; the value returned is the outcome of the write
WriteToTarget(t, payload, wok, rok) ==
    /\ sent' = Append(sent, [report |-> Report(t, payload), ok |-> wok])
    /\ replies' = replies + 1
    /\ lastReplyOk' = rok

\* The build either panics on integer overflow (overflow-checks, the debug
\* profile) or wraps (the release profile); one run has one build.
OverflowModes(known) == IF known = "undecided" THEN {"on", "off"} ELSE {known}

EraseErrorIgnored(ok) == FALSE

\* erase_device(..).map_err(..)? : an error leaves flash_firmware
EraseErrorAborts(ok) == ~ok

FlagErrorIgnored(ok) == FALSE

\* write_ap_flag(..).map_err(..)? : an error leaves flash_firmware
FlagErrorAborts(ok) == ~ok

\* boot_device prints the error of handle.write and returns Ok(())
BootErrorAborts(ok) == FALSE

(***************************************************************************)
(* The flash sequence: flash_firmware lines 86-102.                        *)
(***************************************************************************)
EraseDevice ==
    /\ pc = "erase_device"
    /\ \E wok \in HandleOutcomes, rok \in HandleOutcomes :
          LET payload == ErasePayload(base)
          IN  IF FrameTooLong(target, payload)
              THEN /\ Ends("panicked", "Wut?")
                   /\ UNCHANGED << transport, current_addr >>
              ELSE /\ WriteToTarget(target, payload, wok, rok)
                   /\ IF EraseErrorAborts(wok)
                      THEN Ends("failed", "USBError") /\ current_addr' = current_addr
                      ELSE Goes("flash_file") /\ current_addr' = base
    /\ UNCHANGED << job, overflowChecks, unpluggedAt, discovery, fileReads, filePos >>

\* one turn of flash_file's loop
FlashFile ==
    /\ pc = "flash_file"
    /\ \E fileOk \in BOOLEAN, wok \in HandleOutcomes, rok \in HandleOutcomes :
          LET chunk_size == ChunkSize(target)
              size == ReadSize(fullReads, chunk_size, image_len - filePos)
              buffer == ReadBuffer(chunk_size, filePos, size)
              payload == ChunkPayload(current_addr, ChunkArg(buffer, size))
              \* (current_addr + size as u32) - base, printed after a good
              \* write, and current_addr += size as u32
              overflows ==
                  \/ AddOverflows(current_addr, size)
                  \/ (wok /\ SubOverflows(WrappingAdd(current_addr, size), base))
              carryOn ==
                  /\ current_addr' = IF AdvancesAfter(wok)
                                      THEN AdvanceAddr(current_addr, size, chunk_size)
                                      ELSE current_addr
                  /\ Goes(IF LoopBreaks(size, chunk_size)
                          THEN "write_ap_flag" ELSE "flash_file")
          IN  IF ~fileOk
              THEN \* .expect("read file failure")
                   /\ Ends("panicked", "read file failure")
                   /\ UNCHANGED << overflowChecks, transport, transfer >>
              ELSE /\ fileReads' = Append(fileReads, [pos |-> filePos, size |-> size])
                   /\ filePos' = filePos + size
                   /\ IF ~ShouldWrite(size)
                      THEN /\ UNCHANGED << overflowChecks, transport, current_addr >>
                           /\ Goes(IF LoopBreaks(size, chunk_size)
                                   THEN "write_ap_flag" ELSE "flash_file")
                      ELSE IF FrameTooLong(target, payload)
                      THEN /\ Ends("panicked", "Wut?")
                           /\ UNCHANGED << overflowChecks, transport, current_addr >>
                      ELSE /\ WriteToTarget(target, payload, wok, rok)
                           /\ IF ChunkErrorAborts(wok)
                              THEN /\ Ends("failed", "USBError")
                                   /\ UNCHANGED << overflowChecks, current_addr >>
                              ELSE IF overflows
                              THEN \E checks \in OverflowModes(overflowChecks) :
                                      /\ overflowChecks' = checks
                                      /\ IF checks = "on"
                                         THEN /\ Ends("panicked", "attempt to add with overflow")
                                              /\ current_addr' = current_addr
                                         ELSE carryOn
                              ELSE /\ overflowChecks' = overflowChecks
                                   /\ carryOn
    /\ UNCHANGED << job, unpluggedAt, discovery >>

\* write_ap_flag(&handle, 2), then return Ok(()) unless boot is asked for
WriteApFlag ==
    /\ pc = "write_ap_flag"
    /\ \E wok \in HandleOutcomes, rok \in HandleOutcomes :
          LET payload == ApFlagPayload(ApFlagValue)
          IN  IF FrameTooLong(McuMain, payload)
              THEN Ends("panicked", "Wut?") /\ UNCHANGED transport
              ELSE /\ WriteToTarget(McuMain, payload, wok, rok)
                   /\ IF FlagErrorAborts(wok)
                      THEN Ends("failed", "USBError")
                      ELSE IF boot
                      THEN Goes("boot_device")
                      ELSE Ends("done", "Ok")
    /\ UNCHANGED << job, overflowChecks, unpluggedAt, discovery, transfer >>

\* boot_device(&handle): the literal report, unpadded, no reply read
BootDevice ==
    /\ pc = "boot_device"
    /\ \E wok \in HandleOutcomes :
          /\ sent' = Append(sent, [report |-> BootReport, ok |-> wok])
          /\ IF BootErrorAborts(wok)
             THEN Ends("failed", "USBError")
             ELSE Ends("done", "Ok")
    /\ UNCHANGED << job, overflowChecks, unpluggedAt, discovery, replies, lastReplyOk, transfer >>

Next ==
    \/ HidApiNew
    \/ FetchDevices
    \/ Countdown
    \/ FetchDevicesAgain
    \/ OpenDevice
    \/ EraseDevice
    \/ FlashFile
    \/ WriteApFlag
    \/ BootDevice

Spec == Init /\ [][Next]_vars

(***************************************************************************)
(* write_to_target on its own: one call on an open handle, for every       *)
(* target and every payload length; the payload is the first image_len     *)
(* bytes of the image.                                                     *)
(***************************************************************************)
InitFrame ==
    /\ target \in AP2Target
    /\ base = U32(0, 0)
    /\ image_len \in 0..MaxImageLen
    /\ fullReads = TRUE
    /\ boot = FALSE
    /\ overflowChecks = "undecided"
    /\ devices = << C18Itf0 >>
    /\ pc = "write_to_target"
    /\ result = "running"
    /\ i = 0
    /\ ticks = 0
    /\ fetches = 0
    /\ flash_device = << C18Itf0 >>
    /\ sent = << >>
    /\ replies = 0
    /\ lastReplyOk = TRUE
    /\ unpluggedAt = -1
    /\ fileReads = << >>
    /\ filePos = 0
    /\ current_addr = U32(0, 0)

\* write_to_target(handle, target, payload) -> HidResult<usize>
WriteToTargetCall ==
    /\ pc = "write_to_target"
    /\ \E wok \in HandleOutcomes, rok \in HandleOutcomes :
          LET payload == ImageSlice(0, image_len)
          IN  IF FrameTooLong(target, payload)
              THEN Ends("panicked", "Wut?") /\ UNCHANGED transport
              ELSE /\ WriteToTarget(target, payload, wok, rok)
                   /\ Ends("returned", IF wok THEN "Ok" ELSE "HidError")
    /\ UNCHANGED << job, overflowChecks, unpluggedAt, discovery, transfer >>

NextFrame == WriteToTargetCall

SpecFrame == InitFrame /\ [][NextFrame]_vars

SpecTop == InitTop /\ [][Next]_vars

\* flash_firmware is one sequential flow of calls that each return: a run
\* that can take a step takes one
SpecLive == Init /\ [][Next]_vars /\ WF_vars(Next)

(***************************************************************************)
(* The same runs with a device that can be disconnected while its handle   *)
(* is open: from then on every handle.write and handle.read fails.         *)
(***************************************************************************)
Unplug ==
    /\ pc \in {"erase_device", "flash_file", "write_ap_flag", "boot_device"}
    /\ unpluggedAt < 0
    /\ unpluggedAt' = Len(sent)
    /\ UNCHANGED << job, overflowChecks, discovery, transport, transfer, pc, result >>

NextUnplug ==
    \/ Next
    \/ Unplug

SpecUnplug == Init /\ [][NextUnplug]_vars

(***************************************************************************)
(* Reading the reports that were written.                                  *)
(***************************************************************************)
\* a report that went through write_to_target carrying an FW command
IsCommand(r, opcode) ==
    /\ Len(r.report) = ReportLen + 1
    /\ r.report[10] = FW
    /\ r.report[11] = opcode

IsErase(r) == IsCommand(r, IapEraseMemory)
IsWriteMemory(r) == IsCommand(r, IapWirteMemory)
IsWriteFlag(r) == IsCommand(r, IapWriteApFlag)
IsBoot(r) == r.report = BootReport

WriteMemories == SelectSeq(sent, IsWriteMemory)

\* flash_file has returned
TransferEnded ==
    \/ pc \in {"write_ap_flag", "boot_device", "done"}
    \/ (pc = "failed" /\ \E k \in DOMAIN sent : IsWriteFlag(sent[k]))

(***************************************************************************)
(* C1: no write-memory and no write-validity-flag command is written       *)
(* unless an erase-memory command was written before it in the same run    *)
(* and that write succeeded.                                               *)
(***************************************************************************)
C1_EraseBeforeWrites ==
    \A k \in DOMAIN sent :
        (IsWriteMemory(sent[k]) \/ IsWriteFlag(sent[k]))
            => \E j \in 1..(k - 1) : IsErase(sent[j]) /\ sent[j].ok

\* a run that wrote both a chunk and the flag
C1_Witness ==
    /\ \E k \in DOMAIN sent : IsWriteMemory(sent[k])
    /\ \E k \in DOMAIN sent : IsWriteFlag(sent[k])

(***************************************************************************)
(* C2: a failed chunk write never ends the run.  The step that wrote the   *)
(* failing chunk leaves flash_firmware where a good write would (in the    *)
(* loop after a full read, at the flag after the last read); every chunk   *)
(* read so far has been written; the step after the loop writes the flag;  *)
(* and a good flag write (and any boot step) ends in Done with Ok,         *)
(* whatever the number of failed chunks.                                   *)
(***************************************************************************)
FailedChunks == { k \in DOMAIN sent : IsWriteMemory(sent[k]) /\ ~sent[k].ok }

ChunkReads == { k \in DOMAIN fileReads : fileReads[k].size > 0 }

C2_ChunkFailureStep ==
    /\ pc = "flash_file"
    /\ Len(sent') = Len(sent) + 1
    /\ ~sent'[Len(sent')].ok

C2_Step ==
    /\ C2_ChunkFailureStep =>
          /\ IsWriteMemory(sent'[Len(sent')])
          /\ result' = "running"
          /\ pc' = IF fileReads'[Len(fileReads')].size = ChunkSize(target)
                   THEN "flash_file" ELSE "write_ap_flag"
    /\ pc' \in {"flash_file", "write_ap_flag"} =>
          Len(SelectSeq(sent', IsWriteMemory)) = Cardinality(ChunkReads')
    /\ pc = "write_ap_flag" =>
          /\ Len(sent') = Len(sent) + 1
          /\ IsWriteFlag(sent'[Len(sent')])
          /\ (sent'[Len(sent')].ok /\ ~boot) => (pc' = "done" /\ result' = "Ok")
          /\ (sent'[Len(sent')].ok /\ boot) => pc' = "boot_device"
    /\ pc = "boot_device" => (pc' = "done" /\ result' = "Ok")

C2_ChunkFailuresNeverAbort == [][C2_Step]_vars

\* Done with Ok after three chunks of which the first two failed
C2_Witness ==
    /\ pc = "done"
    /\ result = "Ok"
    /\ Len(WriteMemories) = 3
    /\ Cardinality(FailedChunks) = 2
    /\ WriteMemories[3].ok

(***************************************************************************)
(* C3: when the erase-memory command fails, flash_firmware ends in the     *)
(* failure state with error kind EraseError.                               *)
(***************************************************************************)
C3_EraseFailureIsEraseError ==
    (\E k \in DOMAIN sent : IsErase(sent[k]) /\ ~sent[k].ok)
        => (pc = "failed" /\ result = "EraseError")

(***************************************************************************)
(* C4: when the write-validity-flag command fails, flash_firmware ends in  *)
(* the failure state with error kind FlashError and no boot command is     *)
(* written.                                                                *)
(***************************************************************************)
C4_FlagFailureIsFlashError ==
    (\E k \in DOMAIN sent : IsWriteFlag(sent[k]) /\ ~sent[k].ok)
        => /\ pc = "failed"
           /\ result = "FlashError"
           /\ \A k \in DOMAIN sent : ~IsBoot(sent[k])

(***************************************************************************)
(* C5: when boot is requested and the write of the boot command fails,     *)
(* flash_firmware ends in the failure state with error kind FlashError.    *)
(***************************************************************************)
C5_BootFailureIsFlashError ==
    (\E k \in DOMAIN sent : IsBoot(sent[k]) /\ ~sent[k].ok)
        => (pc = "failed" /\ result = "FlashError")

(***************************************************************************)
(* C6: with a source that fills each read until the image ends, flash_file *)
(* writes exactly ceil(L/C) write-memory commands: L/C when C divides L    *)
(* (one more read returns zero bytes and writes nothing), floor(L/C)+1     *)
(* otherwise.                                                              *)
(***************************************************************************)
C6_WriteCount ==
    LET C == ChunkSize(target)
        L == image_len
        writes == Len(WriteMemories)
    IN  fullReads =>
          /\ writes <= (L + C - 1) \div C
          /\ TransferEnded =>
                /\ writes = (L + C - 1) \div C
                /\ L % C = 0 =>
                      /\ writes = L \div C
                      /\ Len(fileReads) = (L \div C) + 1
                      /\ fileReads[Len(fileReads)].size = 0
                /\ L % C # 0 =>
                      /\ writes = (L \div C) + 1
                      /\ Len(fileReads) = writes

\* a finished transfer of a non-empty image that is a whole number of chunks
C6_Witness ==
    /\ fullReads
    /\ TransferEnded
    /\ image_len > 0
    /\ image_len % ChunkSize(target) = 0
    /\ Len(fileReads) = Len(WriteMemories) + 1

(***************************************************************************)
(* C7: every write-memory command carries exactly C data bytes: the bytes  *)
(* read from the image for that chunk, then zero bytes up to C; nothing    *)
(* of an earlier chunk is in it.                                           *)
(***************************************************************************)
\* the k-th write-memory command belongs to the k-th read of the image
C7_ChunkData ==
    LET C == ChunkSize(target)
    IN  \A k \in DOMAIN WriteMemories :
          LET r == WriteMemories[k].report
              rd == fileReads[k]
          IN  /\ r[6] = 6 + C
              /\ \A j \in 1..C :
                    r[15 + j] = IF j <= rd.size THEN ImageByte(rd.pos + j) ELSE 0
              /\ \A j \in (16 + C)..Len(r) : r[j] = 0

\* a short last chunk written after a full one
C7_Witness ==
    /\ Len(WriteMemories) >= 2
    /\ fileReads[Len(WriteMemories)].size < ChunkSize(target)
    /\ fileReads[Len(WriteMemories)].size > 0

(***************************************************************************)
(* C8: the address of each write-memory command is base plus the image     *)
(* bytes read in all earlier chunks (base, base+C, base+2C, ... for full   *)
(* reads), and when the loop has ended current_addr - base is the number   *)
(* of image bytes read, which for full reads is the image length L, not    *)
(* the padded length.                                                      *)
(***************************************************************************)
ToInt(a) == (a.hi * Half) + a.lo

\* the address in a write-memory report, least significant byte first
AddrIn(r) == r[12] + (256 * r[13]) + (256 * 256 * r[14]) + (256 * 256 * 256 * r[15])

C8_Addresses ==
    /\ \A k \in DOMAIN WriteMemories :
          /\ AddrIn(WriteMemories[k].report) = ToInt(base) + fileReads[k].pos
          /\ fullReads =>
                AddrIn(WriteMemories[k].report)
                    = ToInt(base) + ((k - 1) * ChunkSize(target))
    /\ TransferEnded =>
          /\ ToInt(current_addr) - ToInt(base) = filePos
          /\ fullReads => ToInt(current_addr) - ToInt(base) = image_len

\* the 100-byte image on the main MCU: writes at base, base+48, base+96
C8_Witness ==
    /\ TransferEnded
    /\ fullReads
    /\ target = McuMain
    /\ image_len = 100
    /\ Len(WriteMemories) = 3
    /\ AddrIn(WriteMemories[3].report) = ToInt(base) + 96
    /\ ToInt(current_addr) = ToInt(base) + 100

(***************************************************************************)
(* C9: for every target 1..5 and every payload of 0..56 bytes the report   *)
(* write_to_target writes is 65 bytes: 00, then 7b 10 RR 10 LL 00 00 7d    *)
(* with LL the payload length and RR the target in the high nibble and 1   *)
(* in the low nibble, then the payload as given, then zeros.               *)
(***************************************************************************)
MaxPayloadLen == ReportLen - HeaderLen

C9_ReportLayout ==
    /\ \A k \in DOMAIN sent :
          LET r == sent[k].report
          IN  /\ Len(r) = 65
              /\ r[1] = 0
              /\ r[2] = 123 /\ r[3] = 16 /\ r[5] = 16
              /\ r[4] \div 16 = target /\ r[4] % 16 = 1
              /\ r[6] = image_len
              /\ r[7] = 0 /\ r[8] = 0 /\ r[9] = 125
              /\ \A j \in 1..image_len : r[9 + j] = ImageByte(j)
              /\ \A j \in (10 + image_len)..65 : r[j] = 0
    /\ (pc # "write_to_target" /\ image_len <= MaxPayloadLen) => Len(sent) = 1
    /\ image_len > MaxPayloadLen => sent = << >>

\* the longest payload, written to the BLE MCU
C9_Witness ==
    /\ pc = "returned"
    /\ target = McuBle
    /\ image_len = MaxPayloadLen
    /\ Len(sent) = 1

(***************************************************************************)
(* C10: in every run each command of erase_device, write_chunk and         *)
(* write_ap_flag has header plus payload of at most 64 bytes: the          *)
(* oversized-frame panic of write_to_target is never reached and the       *)
(* whole payload is in the report.                                         *)
(***************************************************************************)
C10_PayloadLen(r) ==
    IF IsErase(r) THEN 6
    ELSE IF IsWriteMemory(r) THEN 6 + ChunkSize(target)
    ELSE IF IsWriteFlag(r) THEN 3
    ELSE 0 - 1

C10_FramesFit ==
    /\ result # "Wut?"
    /\ \A k \in DOMAIN sent :
          ~IsBoot(sent[k]) =>
              /\ Len(sent[k].report) = ReportLen + 1
              /\ sent[k].report[6] = C10_PayloadLen(sent[k])
              /\ HeaderLen + sent[k].report[6] <= ReportLen

\* a finished run with 48-byte chunks, whose frames take 62 of the 64 bytes
C10_Witness ==
    /\ pc = "done"
    /\ target # McuBle
    /\ \E k \in DOMAIN sent :
          IsWriteMemory(sent[k]) /\ HeaderLen + sent[k].report[6] = ReportLen - 2
    /\ \E k \in DOMAIN sent : IsErase(sent[k])
    /\ \E k \in DOMAIN sent : IsWriteFlag(sent[k])

(***************************************************************************)
(* C11: when no flashable candidate exists after discovery (the second     *)
(* fetch_devices included), flash_firmware returns the error NoDeviceFound *)
(* and writes no command to any device.                                    *)
(***************************************************************************)
\* both calls of fetch_devices are done
Discovered == fetches = 2

C11_NoDeviceFoundReturned ==
    (Discovered /\ flash_device = << >>)
        => (pc = "failed" /\ result = "NoDeviceFound" /\ sent = << >>)

(***************************************************************************)
(* C12: when more than one vendor-matching candidate is flashable,         *)
(* discovery reports MultipleDeviceFound and no device is opened, erased   *)
(* or written; none is picked by its place in the enumeration.             *)
(***************************************************************************)
FlashCandidates(list) == SelectSeq(AnneDevices(list), IsFlashDevice)

C12_MultipleDeviceFoundReported ==
    (Discovered /\ Len(FlashCandidates(devices)) > 1)
        => (pc = "failed" /\ result = "MultipleDeviceFound" /\ sent = << >>)

(***************************************************************************)
(* C13: the ten one-second ticks with the prompt happen exactly when the   *)
(* first fetch_devices found a vendor-matching device and no flashable     *)
(* one; they happen at most once in a run, and fetch_devices is called     *)
(* exactly once more after them; with no vendor-matching device there is   *)
(* no wait.                                                                *)
(***************************************************************************)
C13_WaitOnceWhenNotFlashable ==
    /\ ticks \in 0..10
    /\ fetches \in 0..2
    /\ pc \in {"new_api", "fetch_devices"} => (ticks = 0 /\ fetches <= 1)
    /\ pc = "countdown" =>
          /\ NeedsPrompt(devices)
          /\ fetches = 1
          /\ i > 0
          /\ ticks + i = 10
    \* the device list is still the one the first fetch_devices saw
    /\ pc = "fetch_again" =>
          /\ fetches = 1
          /\ ticks = (IF NeedsPrompt(devices) THEN 10 ELSE 0)
          /\ AnneDevices(devices) = << >> => ticks = 0
    /\ Discovered =>
          /\ ticks \in {0, 10}
          /\ pc \notin {"new_api", "fetch_devices", "countdown", "fetch_again"}
    /\ ticks = 10 /\ pc # "fetch_again" => Discovered

\* a device opened after the full wait and the second fetch_devices
C13_Witness ==
    /\ pc = "open_path"
    /\ ticks = 10
    /\ fetches = 2

(***************************************************************************)
(* C14: a fatal transport error during the transfer (the device is         *)
(* disconnected, so every later write fails) aborts the run: after the     *)
(* write that met it, flash_file writes no further write-memory command.   *)
(***************************************************************************)
\* report unpluggedAt + 1 is the write that met the disconnected device
C14_DisconnectStopsTransfer ==
    unpluggedAt >= 0 =>
        \A k \in DOMAIN sent : k > unpluggedAt + 1 => ~IsWriteMemory(sent[k])

(***************************************************************************)
(* C15: the commands of a run come in this order: exactly one erase-memory *)
(* at the base address to the job's target, then the write-memory          *)
(* commands, then at most one write-validity-flag with value 2 to the Main *)
(* MCU whatever the job's target, then at most one boot command, sent only *)
(* when boot was asked for and the flag write succeeded; nothing follows   *)
(* the boot command.                                                       *)
(***************************************************************************)
Phase(r) ==
    IF IsErase(r) THEN 1
    ELSE IF IsWriteMemory(r) THEN 2
    ELSE IF IsWriteFlag(r) THEN 3
    ELSE IF IsBoot(r) THEN 4
    ELSE 0

\* the target a padded report is routed to
RoutedTo(r) == r.report[4] \div 16

C15_CommandOrder ==
    /\ \A k \in DOMAIN sent : Phase(sent[k]) \in 1..4
    /\ \A k \in 2..Len(sent) :
          /\ Phase(sent[k - 1]) <= Phase(sent[k])
          /\ Phase(sent[k - 1]) = Phase(sent[k]) => IsWriteMemory(sent[k])
    /\ pc \in {"flash_file", "write_ap_flag", "boot_device", "done"} => sent # << >>
    /\ sent # << >> =>
          /\ IsErase(sent[1])
          /\ RoutedTo(sent[1]) = target
          /\ SubSeq(sent[1].report, 12, 15) = AddrSlice(base)
    /\ \A k \in DOMAIN sent :
          /\ IsWriteMemory(sent[k]) => RoutedTo(sent[k]) = target
          /\ IsWriteFlag(sent[k]) =>
                /\ RoutedTo(sent[k]) = McuMain
                /\ sent[k].report[12] = 2
          /\ IsBoot(sent[k]) =>
                /\ boot
                /\ k > 1
                /\ IsWriteFlag(sent[k - 1])
                /\ sent[k - 1].ok
                /\ k = Len(sent)

\* a whole run to the BLE MCU: erase, four chunks, flag to the Main MCU, boot
C15_Witness ==
    /\ pc = "done"
    /\ target = McuBle
    /\ Len(WriteMemories) = 4
    /\ Len(sent) = 7
    /\ IsWriteFlag(sent[6])
    /\ IsBoot(sent[7])

(***************************************************************************)
(* C16: for every readable byte source, also one whose read returns fewer  *)
(* bytes than the chunk size before the end of the image, flash_file       *)
(* transfers the whole image: when it returns, the number of bytes read is *)
(* L and every byte of the image is in the write-memory command of the     *)
(* read that returned it.                                                  *)
(***************************************************************************)
C16_WholeImageTransferred ==
    TransferEnded =>
        /\ filePos = image_len
        /\ \A p \in 1..image_len :
              \E k \in DOMAIN WriteMemories :
                 /\ fileReads[k].pos < p
                 /\ p <= fileReads[k].pos + fileReads[k].size
                 /\ WriteMemories[k].report[15 + (p - fileReads[k].pos)] = ImageByte(p)

(***************************************************************************)
(* C17: after a chunk write fails flash_file still advances current_addr   *)
(* by the bytes read for that chunk: the failed chunk is never sent again, *)
(* no two write-memory commands of a run carry the same address, and every *)
(* later chunk is written at the address it would have had if no write had *)
(* failed, base plus the bytes read before it.                             *)
(***************************************************************************)
C17_FailedChunkAdvances ==
    /\ pc = "flash_file" => ToInt(current_addr) = ToInt(base) + filePos
    /\ \A k \in DOMAIN WriteMemories :
          (\E j \in 1..(k - 1) : ~WriteMemories[j].ok) =>
              AddrIn(WriteMemories[k].report) = ToInt(base) + fileReads[k].pos
    /\ \A j, k \in DOMAIN WriteMemories :
          j < k =>
              /\ AddrIn(WriteMemories[j].report) < AddrIn(WriteMemories[k].report)
              /\ fileReads[j].pos + fileReads[j].size <= fileReads[k].pos

\* three chunks of which the first failed and the later two were written
C17_Witness ==
    /\ pc = "done"
    /\ Len(WriteMemories) = 3
    /\ ~WriteMemories[1].ok
    /\ WriteMemories[2].ok
    /\ WriteMemories[3].ok
    /\ AddrIn(WriteMemories[2].report) = ToInt(base) + ChunkSize(target)

(***************************************************************************)
(* C18: for every 32-bit base address and every image length the running   *)
(* address of flash_file stays within 32 bits: base plus the bytes read so *)
(* far never exceeds 2^32 - 1, so the address update never overflows and   *)
(* no write-memory address wraps around modulo 2^32.                       *)
(***************************************************************************)
\* order of two u32 values kept as halves
Below(a, b) == a.hi < b.hi \/ (a.hi = b.hi /\ a.lo < b.lo)

\* the address bytes of a write-memory report, as halves
AddrHalves(r) == [hi |-> r[14] + (256 * r[15]), lo |-> r[12] + (256 * r[13])]

C18_AddressNeverWraps ==
    /\ result # "attempt to add with overflow"
    /\ pc \in {"flash_file", "write_ap_flag"} => ~Below(current_addr, base)
    /\ \A k \in DOMAIN WriteMemories :
          ~Below(AddrHalves(WriteMemories[k].report), base)

(***************************************************************************)
(* C19: every padded command sent through write_to_target is followed by   *)
(* exactly one 64-byte read before the next report is written, also when   *)
(* the write failed; the outcome returned is that of the write alone, so a *)
(* failed or unanswered read never turns a step into a failure.            *)
(***************************************************************************)
PaddedReports == { k \in DOMAIN sent : Len(sent[k].report) = ReportLen + 1 }

C19_OneReadPerCommand ==
    /\ replies = Cardinality(PaddedReports)
    /\ (pc = "failed" /\ sent # << >>) => ~sent[Len(sent)].ok
    /\ (sent # << >> /\ ~sent[Len(sent)].ok /\ pc = "failed") =>
          (IsErase(sent[Len(sent)]) \/ IsWriteFlag(sent[Len(sent)]))

\* a run that ends Ok although a chunk write failed and the read after the
\* last padded command failed
C19_Witness ==
    /\ pc = "done"
    /\ result = "Ok"
    /\ ~boot
    /\ ~lastReplyOk
    /\ FailedChunks # {}
    /\ replies = Len(sent)

(***************************************************************************)
(* C20: for every finite image and every pattern of transport write and    *)
(* read failures, when each call returns, flash_firmware ends after a      *)
(* flashable device is opened: the chunk loop makes at most floor(L/C)+1   *)
(* reads of the image and the run reaches done or failed.  A run whose     *)
(* image file cannot be read ends at .expect("read file failure").         *)
(***************************************************************************)
C20_ReadBound == Len(fileReads) <= (image_len \div ChunkSize(target)) + 1

C20_Ended == pc \in {"done", "failed"} \/ result = "read file failure"

C20_FlashTerminates ==
    /\ [] C20_ReadBound
    /\ (pc = "erase_device") ~> C20_Ended

\* the longest loop: every read full, the last one empty, some writes failed
C20_Witness ==
    /\ pc = "done"
    /\ image_len >= 2 * BleChunkSize
    /\ image_len % ChunkSize(target) = 0
    /\ Len(fileReads) = (image_len \div ChunkSize(target)) + 1
    /\ FailedChunks # {}
    /\ ~lastReplyOk

====
